---- MODULE Spec2Model ----
(***************************************************************************)
(* The shadowsocks relay subsystem of redsocks2 (shadowsocks.c): one       *)
(* intercepted connection, its two bufferevents (client side, relay side), *)
(* its two cipher contexts and the libevent callbacks that pump data.      *)
(*                                                                         *)
(* The connection is a record s; every C function is an operator from a    *)
(* record (and the outcomes of the library calls it makes) to the record   *)
(* after the call, so that a function calling another one composes.  The   *)
(* module's variables are the fields of that record plus ev, the callback  *)
(* the event loop is about to dispatch.                                    *)
(***************************************************************************)
EXTENDS Integers, Sequences, FiniteSets, TLC

VARIABLES
    state,            \* client->state: "ss_new" | "ss_connected"
    life,             \* framework lifecycle: accepted, connecting, relaying, dropped
    relay_connected,  \* client->relay_connected
    e_ctx_init,       \* sclient->e_ctx_init
    d_ctx_init,       \* sclient->d_ctx_init
    e_ctx,            \* sclient->e_ctx
    d_ctx,            \* sclient->d_ctx
    client_in,        \* input evbuffer of client->client: a sequence of chains
    client_out,       \* output evbuffer of client->client: a sequence of bytes
    relay_in,         \* input evbuffer of client->relay
    relay_out,        \* output evbuffer of client->relay
    client_rd,        \* EV_READ enabled on client->client
    relay_rd,         \* EV_READ enabled on client->relay
    client_evshut,    \* client->client_evshut
    relay_evshut,     \* client->relay_evshut
    relay_timeout,    \* a timeout is armed on client->relay
    cbs,              \* callbacks installed on the two bufferevents
    destaddr,         \* client->destaddr
    hist,             \* history: counters of what has happened so far
    instance,         \* the subsystem instance: its config and ss_instance
    ev                \* the callback the event loop dispatches next, or "idle"

vars == <<state, life, relay_connected, e_ctx_init, d_ctx_init, e_ctx, d_ctx,
          client_in, client_out, relay_in, relay_out, client_rd, relay_rd,
          client_evshut, relay_evshut, relay_timeout, cbs, destaddr, hist,
          instance, ev>>

(***************************************************************************)
(* Bounds of the model.                                                    *)
(***************************************************************************)
MaxClientBytes == 3   \* bytes the client sends over the connection's life
MaxRelayBytes == 15   \* bytes the relay sends over the connection's life
MaxChunk == 2         \* most bytes one read of the client socket delivers
RelaySegment == 5     \* bytes one read of the relay socket delivers
WriteUnit == 2        \* bytes a socket takes when it does not take them all
HwmSlack == 1         \* how far the high-water mark lies above the handshake
MaxFailures == 1      \* failed reservations and transforms in the pump
MaxFiniCalls == 3     \* calls of the teardown hook on one connection

(***************************************************************************)
(* Program constants.                                                      *)
(***************************************************************************)
ss_addrtype_ipv4 == 1
sizeof_header == 7
IvLen == 1
MaxCredLen == 255

EV_READ == "EV_READ"
EV_WRITE == "EV_WRITE"

\* The write high-water mark the framework sets on both bufferevents.  It is
\* far above the length of the encrypted handshake.
get_write_hwm == sizeof_header + IvLen + HwmSlack

DestAddrs ==
    { [addr |-> <<10, 0, 0, 1>>, port |-> <<0, 80>>],
      [addr |-> <<192, 168, 1, 2>>, port |-> <<1, 187>>] }

(***************************************************************************)
(* The connection as one record, and back.                                 *)
(***************************************************************************)
S ==
    [ state |-> state, life |-> life, relay_connected |-> relay_connected,
      e_ctx_init |-> e_ctx_init, d_ctx_init |-> d_ctx_init,
      e_ctx |-> e_ctx, d_ctx |-> d_ctx,
      client_in |-> client_in, client_out |-> client_out,
      relay_in |-> relay_in, relay_out |-> relay_out,
      client_rd |-> client_rd, relay_rd |-> relay_rd,
      client_evshut |-> client_evshut, relay_evshut |-> relay_evshut,
      relay_timeout |-> relay_timeout, cbs |-> cbs, destaddr |-> destaddr,
      hist |-> hist ]

Is(s) ==
    /\ state = s.state
    /\ life = s.life
    /\ relay_connected = s.relay_connected
    /\ e_ctx_init = s.e_ctx_init
    /\ d_ctx_init = s.d_ctx_init
    /\ e_ctx = s.e_ctx
    /\ d_ctx = s.d_ctx
    /\ client_in = s.client_in
    /\ client_out = s.client_out
    /\ relay_in = s.relay_in
    /\ relay_out = s.relay_out
    /\ client_rd = s.client_rd
    /\ relay_rd = s.relay_rd
    /\ client_evshut = s.client_evshut
    /\ relay_evshut = s.relay_evshut
    /\ relay_timeout = s.relay_timeout
    /\ cbs = s.cbs
    /\ destaddr = s.destaddr
    /\ hist = s.hist

Becomes(s) ==
    /\ state' = s.state
    /\ life' = s.life
    /\ relay_connected' = s.relay_connected
    /\ e_ctx_init' = s.e_ctx_init
    /\ d_ctx_init' = s.d_ctx_init
    /\ e_ctx' = s.e_ctx
    /\ d_ctx' = s.d_ctx
    /\ client_in' = s.client_in
    /\ client_out' = s.client_out
    /\ relay_in' = s.relay_in
    /\ relay_out' = s.relay_out
    /\ client_rd' = s.client_rd
    /\ relay_rd' = s.relay_rd
    /\ client_evshut' = s.client_evshut
    /\ relay_evshut' = s.relay_evshut
    /\ relay_timeout' = s.relay_timeout
    /\ cbs' = s.cbs
    /\ destaddr' = s.destaddr
    /\ hist' = s.hist
    /\ instance' = instance

(***************************************************************************)
(* evbuffers.  An input evbuffer is a sequence of chains, each a non-empty *)
(* sequence of bytes; an output evbuffer is read only through its length,  *)
(* and is a flat sequence of bytes.                                        *)
(***************************************************************************)
RECURSIVE Flat(_)
Flat(buf) == IF buf = <<>> THEN <<>> ELSE Head(buf) \o Flat(Tail(buf))

evbuffer_get_length(buf) == Len(Flat(buf))

evbuffer_get_contiguous_space(buf) == IF buf = <<>> THEN 0 ELSE Len(Head(buf))

\* The first size bytes as one contiguous run.  Called with size equal to the
\* contiguous space, it moves nothing.
evbuffer_pullup(buf, size) == SubSeq(Flat(buf), 1, size)

RECURSIVE evbuffer_drain(_, _)
evbuffer_drain(buf, len) ==
    IF len = 0 \/ buf = <<>> THEN buf
    ELSE IF Len(Head(buf)) <= len
         THEN evbuffer_drain(Tail(buf), len - Len(Head(buf)))
         ELSE <<SubSeq(Head(buf), len + 1, Len(Head(buf)))>> \o Tail(buf)

\* A socket read of data: libevent fills the last chain or starts a new one.
evbuffer_add(buf, data, newchain) ==
    IF buf = <<>> \/ newchain THEN Append(buf, data)
    ELSE SubSeq(buf, 1, Len(buf) - 1) \o <<buf[Len(buf)] \o data>>

(***************************************************************************)
(* Cipher contexts (encrypt.h).  A context is live between enc_ctx_init    *)
(* and enc_ctx_free; iv counts the IV bytes emitted (encrypt) or consumed  *)
(* (decrypt), n the payload bytes transformed; inits, frees and misuse     *)
(* record how the context was handled.                                     *)
(***************************************************************************)
NoCtx == [live |-> FALSE, iv |-> 0, n |-> 0, inits |-> 0, frees |-> 0, misuse |-> FALSE]

enc_ctx_init(ctx, ok) ==
    IF ok THEN [ctx EXCEPT !.live = TRUE, !.iv = 0, !.n = 0, !.inits = @ + 1]
    ELSE ctx

enc_ctx_free(ctx) ==
    [ctx EXCEPT !.live = FALSE, !.iv = 0, !.n = 0, !.frees = @ + 1,
                !.misuse = @ \/ ~ctx.live]

ss_calc_buffer_size(ctx, len) == len + IvLen

\* One byte of cipher output: which context produced it, at which position of
\* that context's stream, from which input byte.
Out(which, pos, c) == [ctx |-> which, pos |-> pos, c |-> c]

\* The stream cipher: the first call emits the IV, every byte of data becomes
\* one byte of ciphertext that depends on its position in the stream.
ss_encrypt(ctx, data, rc) ==
    IF ~rc THEN [rc |-> 0, ctx |-> [ctx EXCEPT !.misuse = @ \/ ~ctx.live], out |-> <<>>]
    ELSE [ rc |-> 1,
           ctx |-> [ctx EXCEPT !.iv = IvLen, !.n = @ + Len(data),
                               !.misuse = @ \/ ~ctx.live],
           out |-> [i \in 1..(IvLen - ctx.iv) |->
                        Out("e", 0, [o |-> "iv", v |-> ctx.iv + i])]
                   \o [i \in 1..Len(data) |-> Out("e", ctx.n + i, data[i])] ]

\* The reverse: the first IvLen bytes of the stream are the peer's IV and
\* produce no output.
ss_decrypt(ctx, data, rc) ==
    IF ~rc THEN [rc |-> 0, ctx |-> [ctx EXCEPT !.misuse = @ \/ ~ctx.live], out |-> <<>>]
    ELSE LET skip == IF IvLen - ctx.iv < Len(data) THEN IvLen - ctx.iv ELSE Len(data)
         IN [ rc |-> 1,
              ctx |-> [ctx EXCEPT !.iv = @ + skip, !.n = @ + Len(data) - skip,
                                  !.misuse = @ \/ ~ctx.live],
              out |-> [i \in 1..(Len(data) - skip) |->
                           Out("d", ctx.n + i, data[skip + i])] ]

(***************************************************************************)
(* C strings: a null pointer, or the characters before the terminator.     *)
(***************************************************************************)
NULL == [null |-> TRUE, chars |-> <<>>]

Str(chars) == [null |-> FALSE, chars |-> chars]

strlen(str) == Len(str.chars)

\* The cipher methods enc_init knows by name, in the order of its table.
supported_ciphers == <<Str(<<"t", "a", "b", "l", "e">>), Str(<<"r", "c", "4">>)>>

\* The index of the method, or -1 when the name is not in the table.
enc_init(password, method) ==
    IF \E m \in 1..Len(supported_ciphers) : supported_ciphers[m] = method
    THEN (CHOOSE m \in 1..Len(supported_ciphers) : supported_ciphers[m] = method) - 1
    ELSE -1

(***************************************************************************)
(* shadowsocks.c                                                           *)
(***************************************************************************)
\* A credential check that does not look at the password's length.
ss_is_valid_cred_no_len(method, password) ==
    IF method.null \/ password.null THEN 0
    ELSE IF strlen(method) > MaxCredLen THEN 0
    ELSE 1

ss_is_valid_cred(method, password) ==
    IF method.null \/ password.null THEN 0
    ELSE IF strlen(method) > MaxCredLen THEN 0
    ELSE IF strlen(password) > MaxCredLen THEN 0
    ELSE 1

\* The instance before ss_instance_init: its config and a zeroed ss_instance.
\* called and enc_called record that ss_instance_init and enc_init have run.
NewInstance(login, password) ==
    [login |-> login, password |-> password, called |-> FALSE, valid_cred |-> 0,
     enc_called |-> FALSE, method |-> 0, ret |-> 0]

\* enc_init is called only when the credentials are valid.
ss_instance_init(inst) ==
    LET valid_cred == ss_is_valid_cred(inst.login, inst.password)
        a == [inst EXCEPT !.called = TRUE, !.valid_cred = valid_cred]
    IN IF valid_cred = 0 THEN [a EXCEPT !.ret = -1]
       ELSE LET b == [a EXCEPT !.enc_called = TRUE,
                               !.method = enc_init(inst.password, inst.login)]
            IN IF b.method = -1 THEN [b EXCEPT !.ret = -1]
               ELSE [b EXCEPT !.ret = 0]

ss_client_init(s) == [s EXCEPT !.state = "ss_new"]

\* A teardown hook that frees the contexts and leaves their flags set.
ss_client_fini_keeps_flags(s) ==
    LET a == IF s.e_ctx_init # 0
             THEN [s EXCEPT !.e_ctx = enc_ctx_free(s.e_ctx)]
             ELSE s
        b == IF a.d_ctx_init # 0
             THEN [a EXCEPT !.d_ctx = enc_ctx_free(a.d_ctx)]
             ELSE a
    IN [b EXCEPT !.hist.fini_calls = @ + 1]

ss_client_fini(s) ==
    LET a == IF s.e_ctx_init # 0
             THEN [s EXCEPT !.e_ctx = enc_ctx_free(s.e_ctx), !.e_ctx_init = 0]
             ELSE s
        b == IF a.d_ctx_init # 0
             THEN [a EXCEPT !.d_ctx = enc_ctx_free(a.d_ctx), !.d_ctx_init = 0]
             ELSE a
    IN [b EXCEPT !.hist.fini_calls = @ + 1]

\* The framework's drop path: the subsystem's teardown hook, then both
\* bufferevents are freed with their evbuffers and the connection is released.
redsocks_drop_client(s) ==
    [ss_client_fini(s) EXCEPT !.life = "dropped", !.cbs = "none",
                              !.client_in = <<>>, !.client_out = <<>>,
                              !.relay_in = <<>>, !.relay_out = <<>>,
                              !.hist.client_rx = 0, !.hist.relay_rx = 0,
                              !.hist.client_sent = 0, !.hist.relay_sent = 0,
                              !.client_rd = FALSE, !.relay_rd = FALSE,
                              !.relay_timeout = FALSE]

bufferevent_get_input(s, bev) == IF bev = "client" THEN s.client_in ELSE s.relay_in

bufferevent_get_output(s, bev) == IF bev = "client" THEN s.client_out ELSE s.relay_out

bufferevent_enable(s, bev, what) ==
    IF what # EV_READ THEN s
    ELSE IF bev = "client" THEN [s EXCEPT !.client_rd = TRUE]
         ELSE [s EXCEPT !.relay_rd = TRUE]

bufferevent_disable(s, bev, what) ==
    IF what # EV_READ THEN s
    ELSE IF bev = "client" THEN [s EXCEPT !.client_rd = FALSE]
         ELSE [s EXCEPT !.relay_rd = FALSE]

\* An encrypt_mem that commits its output at the head of the output evbuffer.
encrypt_mem_at_head(s, data, len, to, decrypt, io) ==
    IF len = 0 \/ ~io.reserve THEN s
    ELSE LET r == IF decrypt THEN ss_decrypt(s.d_ctx, data, io.rc)
                  ELSE ss_encrypt(s.e_ctx, data, io.rc)
             t == IF decrypt THEN [s EXCEPT !.d_ctx = r.ctx]
                  ELSE [s EXCEPT !.e_ctx = r.ctx]
         IN IF to = "client"
            THEN [t EXCEPT !.client_out = r.out \o @]
            ELSE [t EXCEPT !.relay_out = r.out \o @]

\* An encrypt_mem that commits all the space it reserved, whatever the
\* transform wrote into it.
encrypt_mem_commits_reserved(s, data, len, to, decrypt, io) ==
    IF len = 0 \/ ~io.reserve THEN s
    ELSE LET r == IF decrypt THEN ss_decrypt(s.d_ctx, data, io.rc)
                  ELSE ss_encrypt(s.e_ctx, data, io.rc)
             required == IF decrypt THEN ss_calc_buffer_size(s.d_ctx, len)
                         ELSE ss_calc_buffer_size(s.e_ctx, len)
             junk == Out(IF decrypt THEN "d" ELSE "e", 0, [o |-> "junk", v |-> 0])
             iov == [i \in 1..required |-> IF i <= Len(r.out) THEN r.out[i] ELSE junk]
             t == IF decrypt THEN [s EXCEPT !.d_ctx = r.ctx]
                  ELSE [s EXCEPT !.e_ctx = r.ctx]
             u == [t EXCEPT !.hist.failed = @ \/ (r.rc = 0),
                            !.hist.failures = IF r.rc = 0 THEN @ + 1 ELSE @]
         IN IF to = "client"
            THEN [u EXCEPT !.client_out = @ \o iov]
            ELSE [u EXCEPT !.relay_out = @ \o iov]

\* evbuffer_reserve_space, the transform into the reserved space, and
\* evbuffer_commit_space of what the transform produced.  io.reserve and io.rc
\* are the outcomes of the reservation and of the transform.
encrypt_mem(s, data, len, to, decrypt, io) ==
    IF len = 0 THEN s
    ELSE LET required == IF decrypt THEN ss_calc_buffer_size(s.d_ctx, len)
                         ELSE ss_calc_buffer_size(s.e_ctx, len)
         IN IF required # 0 /\ io.reserve
            THEN LET r == IF decrypt THEN ss_decrypt(s.d_ctx, data, io.rc)
                          ELSE ss_encrypt(s.e_ctx, data, io.rc)
                     iov == IF r.rc = 0 THEN <<>> ELSE r.out
                     t == IF decrypt THEN [s EXCEPT !.d_ctx = r.ctx]
                          ELSE [s EXCEPT !.e_ctx = r.ctx]
                     u == [t EXCEPT !.hist.failed = @ \/ (r.rc = 0),
                                    !.hist.failures = IF r.rc = 0 THEN @ + 1 ELSE @]
                 IN IF to = "client"
                    THEN [u EXCEPT !.client_out = @ \o iov]
                    ELSE [u EXCEPT !.relay_out = @ \o iov]
            ELSE [s EXCEPT !.hist.failures = @ + 1]

\* A pump that takes the whole input queue at once.
TransformBuffer_whole_queue(s, from, to, decrypt, io) ==
    LET buf_in == bufferevent_get_input(s, from)
        input_size == evbuffer_get_length(buf_in)
    IN IF input_size = 0 THEN s
       ELSE LET t == encrypt_mem([s EXCEPT !.hist.pumped = TRUE],
                                 evbuffer_pullup(buf_in, input_size),
                                 input_size, to, decrypt, io)
            IN IF from = "client"
               THEN [t EXCEPT !.client_in = <<>>]
               ELSE [t EXCEPT !.relay_in = <<>>]

\* encrypt_buffer and decrypt_buffer: one contiguous block at a time.
TransformBuffer(s, from, to, decrypt, io) ==
    LET buf_in == bufferevent_get_input(s, from)
        input_size == evbuffer_get_contiguous_space(buf_in)
    IN IF input_size = 0 THEN s
       ELSE LET input == evbuffer_pullup(buf_in, input_size)
                t == encrypt_mem([s EXCEPT !.hist.pumped = TRUE],
                                 input, input_size, to, decrypt, io)
            IN IF from = "client"
               THEN [t EXCEPT !.client_in = evbuffer_drain(buf_in, input_size)]
               ELSE [t EXCEPT !.relay_in = evbuffer_drain(buf_in, input_size)]

encrypt_buffer(s, from, to, io) == TransformBuffer(s, from, to, FALSE, io)

decrypt_buffer(s, from, to, io) == TransformBuffer(s, from, to, TRUE, io)

(***************************************************************************)
(* The framework's half-close helpers (redsocks.c).                        *)
(***************************************************************************)
evshut(s, bev) == IF bev = "client" THEN s.client_evshut ELSE s.relay_evshut

redsocks_shutdown(s, bev, how) ==
    LET a == IF bev = "client" THEN [s EXCEPT !.client_evshut = @ \cup {how}]
             ELSE [s EXCEPT !.relay_evshut = @ \cup {how}]
        b == bufferevent_disable(a, bev, how)
    IN IF b.client_evshut = {EV_READ, EV_WRITE} /\ b.relay_evshut = {EV_READ, EV_WRITE}
       THEN redsocks_drop_client(b)
       ELSE b

\* When the source has reached end of stream and nothing of it is left to
\* forward, the destination's write side is shut down and the write callback
\* has nothing more to do.
process_shutdown_on_write_(s, from, to) ==
    IF /\ EV_READ \in evshut(s, from)
       /\ EV_WRITE \notin evshut(s, to)
       /\ evbuffer_get_length(bufferevent_get_input(s, from)) = 0
    THEN [ret |-> 1, s |-> redsocks_shutdown(s, to, EV_WRITE)]
    ELSE [ret |-> 0, s |-> s]

\* redsocks_event_error on end of stream: the read side of bev is shut down,
\* and the write side of the other stream too once it has nothing left to send.
redsocks_event_eof(s, bev) ==
    LET antiev == IF bev = "client" THEN "relay" ELSE "client"
        a == redsocks_shutdown(s, bev, EV_READ)
    IN IF /\ a.life # "dropped"
          /\ a.relay_connected = 1
          /\ Len(bufferevent_get_output(a, antiev)) = 0
          /\ EV_WRITE \notin evshut(a, antiev)
       THEN redsocks_shutdown(a, antiev, EV_WRITE)
       ELSE a

\* Wires the steady-state pump and enables both streams; drops the client when
\* that fails.
redsocks_start_relay(s, ok) ==
    IF ~ok THEN [ret |-> -1, s |-> redsocks_drop_client(s)]
    ELSE [ret |-> 0,
          s |-> [s EXCEPT !.life = "relaying", !.cbs = "redsocks",
                          !.client_rd = EV_READ \notin s.client_evshut,
                          !.relay_rd = EV_READ \notin s.relay_evshut]]

(***************************************************************************)
(* The four steady-state callbacks.                                        *)
(***************************************************************************)
\* A client write callback that pumps the relay's input with encrypt_buffer.
ss_client_writecb_encrypts(s, io) ==
    LET p == process_shutdown_on_write_(s, "relay", "client")
    IN IF p.ret # 0 THEN p.s
       ELSE IF s.state = "ss_connected"
            THEN IF Len(s.client_out) < get_write_hwm
                 THEN LET t == IF s.relay_in # <<>>
                               THEN encrypt_buffer(s, "relay", "client", io)
                               ELSE s
                      IN IF EV_READ \notin t.relay_evshut
                         THEN bufferevent_enable(t, "relay", EV_READ)
                         ELSE t
                 ELSE s
            ELSE redsocks_drop_client(s)

ss_client_writecb(s, io) ==
    LET from == "relay"
        to == "client"
        input_size == evbuffer_get_contiguous_space(bufferevent_get_input(s, from))
        output_size == Len(bufferevent_get_output(s, to))
        p == process_shutdown_on_write_(s, from, to)
    IN IF p.ret # 0 THEN p.s
       ELSE IF s.state = "ss_connected"
            THEN IF output_size < get_write_hwm
                 THEN LET t == IF input_size # 0 THEN decrypt_buffer(s, from, to, io)
                               ELSE s
                      IN IF EV_READ \notin t.relay_evshut
                         THEN bufferevent_enable(t, from, EV_READ)
                         ELSE t
                 ELSE s
            ELSE redsocks_drop_client(s)

\* A read callback that pumps whatever the length of the output queue.
ss_client_readcb_no_hwm(s, io) ==
    IF s.state = "ss_connected"
    THEN bufferevent_enable(encrypt_buffer(s, "client", "relay", io), "client", EV_READ)
    ELSE redsocks_drop_client(s)

ss_client_readcb(s, io) ==
    LET from == "client"
        to == "relay"
        output_size == Len(bufferevent_get_output(s, to))
    IN IF s.state = "ss_connected"
       THEN IF output_size < get_write_hwm
            THEN bufferevent_enable(encrypt_buffer(s, from, to, io), from, EV_READ)
            ELSE bufferevent_disable(s, from, EV_READ)
       ELSE redsocks_drop_client(s)

\* A write callback that pumps and never turns the source's reads back on.
ss_relay_writecb_no_enable(s, io) ==
    LET p == process_shutdown_on_write_(s, "client", "relay")
    IN IF p.ret # 0 THEN p.s
       ELSE IF s.state = "ss_connected"
            THEN IF Len(s.relay_out) < get_write_hwm /\ s.client_in # <<>>
                 THEN encrypt_buffer(s, "client", "relay", io)
                 ELSE s
            ELSE redsocks_drop_client(s)

\* A write callback that turns the source's reads on without looking at
\* client_evshut.
ss_relay_writecb_no_evshut(s, io) ==
    LET p == process_shutdown_on_write_(s, "client", "relay")
    IN IF p.ret # 0 THEN p.s
       ELSE IF s.state = "ss_connected"
            THEN IF Len(s.relay_out) < get_write_hwm
                 THEN LET t == IF s.client_in # <<>>
                               THEN encrypt_buffer(s, "client", "relay", io)
                               ELSE s
                      IN bufferevent_enable(t, "client", EV_READ)
                 ELSE s
            ELSE redsocks_drop_client(s)

ss_relay_writecb(s, io) ==
    LET from == "client"
        to == "relay"
        input_size == evbuffer_get_contiguous_space(bufferevent_get_input(s, from))
        output_size == Len(bufferevent_get_output(s, to))
        p == process_shutdown_on_write_(s, from, to)
    IN IF p.ret # 0 THEN p.s
       ELSE IF s.state = "ss_connected"
            THEN IF output_size < get_write_hwm
                 THEN LET t == IF input_size # 0 THEN encrypt_buffer(s, from, to, io)
                               ELSE s
                      IN IF EV_READ \notin t.client_evshut
                         THEN bufferevent_enable(t, from, EV_READ)
                         ELSE t
                 ELSE s
            ELSE redsocks_drop_client(s)

\* A relay read callback that pumps whatever the length of the output queue.
ss_relay_readcb_no_hwm(s, io) ==
    IF s.state = "ss_connected"
    THEN LET t == IF s.relay_in # <<>> THEN decrypt_buffer(s, "relay", "client", io)
                  ELSE s
         IN bufferevent_enable(t, "relay", EV_READ)
    ELSE redsocks_drop_client(s)

ss_relay_readcb(s, io) ==
    LET from == "relay"
        to == "client"
        input_size == evbuffer_get_contiguous_space(bufferevent_get_input(s, from))
        output_size == Len(bufferevent_get_output(s, to))
    IN IF s.state = "ss_connected"
       THEN IF output_size < get_write_hwm
            THEN LET t == IF input_size # 0 THEN decrypt_buffer(s, from, to, io)
                          ELSE s
                 IN bufferevent_enable(t, from, EV_READ)
            ELSE bufferevent_disable(s, from, EV_READ)
       ELSE redsocks_drop_client(s)

(***************************************************************************)
(* Relay connect.                                                          *)
(***************************************************************************)
\* An ss_relay_connected that does not look at the socket's error.
ss_relay_connected_no_check(s, ok, start_ok, io) ==
    LET a == [s EXCEPT !.relay_connected = 1, !.state = "ss_connected",
                       !.relay_timeout = FALSE,
                       !.hist.connect = IF ok THEN "ok" ELSE "failed"]
        r == redsocks_start_relay(a, start_ok)
    IN IF r.ret # 0 THEN r.s
       ELSE LET b == [r.s EXCEPT !.cbs = "ss"]
            IN IF evbuffer_get_length(b.client_in) # 0
               THEN ss_relay_writecb(b, io)
               ELSE b

\* An ss_relay_connected that leaves the client's buffered input where it is.
ss_relay_connected_no_flush(s, ok, start_ok, io) ==
    IF ~ok THEN redsocks_drop_client([s EXCEPT !.hist.connect = "failed"])
    ELSE LET a == [s EXCEPT !.relay_connected = 1, !.state = "ss_connected",
                            !.relay_timeout = FALSE, !.hist.connect = "ok"]
             r == redsocks_start_relay(a, start_ok)
         IN IF r.ret # 0 THEN r.s
            ELSE [r.s EXCEPT !.cbs = "ss"]

\* An ss_relay_connected that leaves the connect timeout armed.
ss_relay_connected_keeps_timeout(s, ok, start_ok, io) ==
    IF ~ok THEN redsocks_drop_client([s EXCEPT !.hist.connect = "failed"])
    ELSE LET a == [s EXCEPT !.relay_connected = 1, !.state = "ss_connected",
                            !.hist.connect = "ok"]
             r == redsocks_start_relay(a, start_ok)
         IN IF r.ret # 0 THEN r.s
            ELSE LET b == [r.s EXCEPT !.cbs = "ss"]
                 IN IF evbuffer_get_length(b.client_in) # 0
                    THEN ss_relay_writecb([b EXCEPT !.hist.connect = "flushed"], io)
                    ELSE b

\* ok: red_is_socket_connected_ok; start_ok: redsocks_start_relay succeeds.
\* hist.connect records which way the call went.
ss_relay_connected(s, ok, start_ok, io) ==
    IF ~ok THEN redsocks_drop_client([s EXCEPT !.hist.connect = "failed"])
    ELSE LET a == [s EXCEPT !.relay_connected = 1, !.state = "ss_connected",
                            !.relay_timeout = FALSE, !.hist.connect = "ok"]
             r == redsocks_start_relay(a, start_ok)
         IN IF r.ret # 0 THEN r.s
            ELSE LET b == [r.s EXCEPT !.cbs = "ss"]
                 IN IF evbuffer_get_length(b.client_in) # 0
                    THEN ss_relay_writecb([b EXCEPT !.hist.connect = "flushed"], io)
                    ELSE b

\* A header with the port before the address.
ss_header_port_first(dest) ==
    [i \in 1..sizeof_header |->
        [o |-> "hdr",
         v |-> IF i = 1 THEN ss_addrtype_ipv4
               ELSE IF i <= 3 THEN dest.port[i - 1]
               ELSE dest.addr[i - 3]]]

\* The handshake header: address type, 4 bytes of address, 2 bytes of port.
ss_header_ipv4(dest) ==
    [i \in 1..sizeof_header |->
        [o |-> "hdr",
         v |-> IF i = 1 THEN ss_addrtype_ipv4
               ELSE IF i <= 5 THEN dest.addr[i - 1]
               ELSE dest.port[i - 5]]]

\* What red_connect_relay_tfo can do with the len bytes of data it is given:
\* fail; queue them on the new stream and report 0 or len; or hand sz >= 1 of
\* them to the socket with the connect request and report sz.
TfoOutcomes(len) ==
    {[relay |-> FALSE, sz |-> 0, queued |-> FALSE]}
    \cup {[relay |-> TRUE, sz |-> z, queued |-> TRUE] : z \in {0, len}}
    \cup {[relay |-> TRUE, sz |-> z, queued |-> FALSE] : z \in 1..len}

red_connect_relay_tfo(s, data, tfo) ==
    IF ~tfo.relay THEN s
    ELSE [s EXCEPT !.relay_timeout = TRUE,
                   !.cbs = "connect",
                   !.relay_out = IF tfo.queued THEN data ELSE <<>>,
                   !.hist.relay_sent = IF tfo.queued THEN 0 ELSE tfo.sz,
                   !.hist.tfo_sz = tfo.sz]

\* An ss_connect_relay that sets both flags only once both contexts exist.
ss_connect_relay_late_flag(s, e_ok, d_ok, rc, tfo) ==
    IF ~e_ok THEN [ret |-> -1, s |-> redsocks_drop_client(s)]
    ELSE LET a == [s EXCEPT !.e_ctx = enc_ctx_init(s.e_ctx, TRUE)]
         IN IF ~d_ok THEN [ret |-> -1, s |-> redsocks_drop_client(a)]
            ELSE LET b == [a EXCEPT !.d_ctx = enc_ctx_init(a.d_ctx, TRUE),
                                    !.e_ctx_init = 1, !.d_ctx_init = 1]
                     r == ss_encrypt(b.e_ctx, ss_header_ipv4(b.destaddr), rc)
                     c == [b EXCEPT !.e_ctx = r.ctx, !.hist.hdr_built = @ + 1]
                     d == red_connect_relay_tfo(c, r.out, tfo)
                 IN IF r.rc = 0 THEN [ret |-> -1, s |-> redsocks_drop_client(c)]
                    ELSE IF ~tfo.relay \/ (tfo.sz # 0 /\ tfo.sz # Len(r.out))
                         THEN [ret |-> -1, s |-> redsocks_drop_client(d)]
                         ELSE [ret |-> 0, s |-> [d EXCEPT !.life = "connecting"]]

\* An ss_connect_relay that sets the encrypt flag without initializing the
\* encrypt context.
ss_connect_relay_no_init(s, e_ok, d_ok, rc, tfo) ==
    IF ~e_ok THEN [ret |-> -1, s |-> redsocks_drop_client(s)]
    ELSE LET a == [s EXCEPT !.e_ctx_init = 1]
         IN IF ~d_ok THEN [ret |-> -1, s |-> redsocks_drop_client(a)]
            ELSE LET b == [a EXCEPT !.d_ctx = enc_ctx_init(a.d_ctx, TRUE),
                                    !.d_ctx_init = 1]
                     r == ss_encrypt(b.e_ctx, ss_header_ipv4(b.destaddr), rc)
                     c == [b EXCEPT !.e_ctx = r.ctx, !.hist.hdr_built = @ + 1]
                     d == red_connect_relay_tfo(c, r.out, tfo)
                 IN IF r.rc = 0 \/ ~tfo.relay \/ (tfo.sz # 0 /\ tfo.sz # Len(r.out))
                    THEN [ret |-> -1, s |-> redsocks_drop_client(d)]
                    ELSE [ret |-> 0, s |-> [d EXCEPT !.life = "connecting"]]

\* An ss_connect_relay that does not look at the length the helper reports.
ss_connect_relay_any_sz(s, e_ok, d_ok, rc, tfo) ==
    IF ~e_ok THEN [ret |-> -1, s |-> redsocks_drop_client(s)]
    ELSE LET a == [s EXCEPT !.e_ctx = enc_ctx_init(s.e_ctx, TRUE), !.e_ctx_init = 1]
         IN IF ~d_ok THEN [ret |-> -1, s |-> redsocks_drop_client(a)]
            ELSE LET b == [a EXCEPT !.d_ctx = enc_ctx_init(a.d_ctx, TRUE),
                                    !.d_ctx_init = 1]
                     r == ss_encrypt(b.e_ctx, ss_header_ipv4(b.destaddr), rc)
                     c == [b EXCEPT !.e_ctx = r.ctx, !.hist.hdr_built = @ + 1]
                     d == red_connect_relay_tfo(c, r.out, tfo)
                 IN IF r.rc = 0 \/ ~tfo.relay
                    THEN [ret |-> -1, s |-> redsocks_drop_client(d)]
                    ELSE [ret |-> 0, s |-> [d EXCEPT !.life = "connecting"]]

\* e_ok, d_ok: the two enc_ctx_init calls succeed; rc: ss_encrypt of the
\* header succeeds; tfo: what red_connect_relay_tfo does.
ss_connect_relay(s, e_ok, d_ok, rc, tfo) ==
    IF ~e_ok THEN [ret |-> -1, s |-> redsocks_drop_client(s)]
    ELSE LET a == [s EXCEPT !.e_ctx = enc_ctx_init(s.e_ctx, TRUE), !.e_ctx_init = 1]
         IN IF ~d_ok THEN [ret |-> -1, s |-> redsocks_drop_client(a)]
            ELSE LET b == [a EXCEPT !.d_ctx = enc_ctx_init(a.d_ctx, TRUE),
                                    !.d_ctx_init = 1]
                     header == ss_header_ipv4(b.destaddr)
                     r == ss_encrypt(b.e_ctx, header, rc)
                     c == [b EXCEPT !.e_ctx = r.ctx, !.hist.hdr_built = @ + 1]
                 IN IF r.rc = 0 THEN [ret |-> -1, s |-> redsocks_drop_client(c)]
                    ELSE LET len == Len(r.out)
                             d == red_connect_relay_tfo(c, r.out, tfo)
                         IN IF ~tfo.relay
                            THEN [ret |-> -1, s |-> redsocks_drop_client(d)]
                            ELSE IF tfo.sz # 0 /\ tfo.sz # len
                                 THEN [ret |-> -1, s |-> redsocks_drop_client(d)]
                                 ELSE [ret |-> 0, s |-> [d EXCEPT !.life = "connecting"]]

HeaderCipherLen == sizeof_header + IvLen

(***************************************************************************)
(* The event loop.                                                         *)
(***************************************************************************)
\* The outcomes of evbuffer_reserve_space and of the transform in one pump.
IOs ==
    IF hist.failures < MaxFailures THEN [reserve : BOOLEAN, rc : BOOLEAN]
    ELSE [reserve : {TRUE}, rc : {TRUE}]

NoHist == [client_rx |-> 0, relay_rx |-> 0, client_sent |-> 0, relay_sent |-> 0,
           hdr_built |-> 0, pumped |-> FALSE, failed |-> FALSE,
           failures |-> 0, fini_calls |-> 0, connect |-> "none",
           tfo_sz |-> -1, connect_ret |-> 0]

\* The connection the framework hands to ss_client_init: a zeroed client with
\* its payload, the client stream open and readable, no relay stream yet.
Accepted(dest) ==
    [ state |-> "unset", life |-> "accepted", relay_connected |-> 0,
      e_ctx_init |-> 0, d_ctx_init |-> 0, e_ctx |-> NoCtx, d_ctx |-> NoCtx,
      client_in |-> <<>>, client_out |-> <<>>, relay_in |-> <<>>, relay_out |-> <<>>,
      client_rd |-> TRUE, relay_rd |-> FALSE,
      client_evshut |-> {}, relay_evshut |-> {},
      relay_timeout |-> FALSE, cbs |-> "none", destaddr |-> dest,
      hist |-> NoHist ]

\* The instance the connections of this model belong to: one whose
\* ss_instance_init has succeeded.
StartedInstance ==
    ss_instance_init(NewInstance(Str(<<"r", "c", "4">>), Str(<<"p", "w">>)))

Init ==
    /\ ev = "idle"
    /\ instance = StartedInstance
    /\ \E dest \in DestAddrs : Is(ss_client_init(Accepted(dest)))

\* Bytes first + 1 .. first + n as they arrive from a peer.
Bytes(origin, first, n) == [i \in 1..n |-> [o |-> origin, v |-> first + i]]

\* The framework calls the subsystem's connect_relay entry once per connection.
\* hist.tfo_sz is the length the connect helper reported when it returned a
\* stream (-1 until then), hist.connect_ret what ss_connect_relay returned.
ConnectRelay ==
    /\ ev = "idle"
    /\ life = "accepted"
    /\ \E e_ok \in BOOLEAN, d_ok \in BOOLEAN, rc \in BOOLEAN,
          tfo \in TfoOutcomes(HeaderCipherLen) :
           LET r == ss_connect_relay(S, e_ok, d_ok, rc, tfo)
           IN Becomes([r.s EXCEPT !.hist.connect_ret = r.ret])
    /\ ev' = ev

\* The client socket becomes readable: libevent reads n bytes into the input
\* evbuffer and then calls the read callback, when one is installed.
ClientData ==
    /\ ev = "idle"
    /\ life \in {"connecting", "relaying"}
    /\ client_rd
    /\ \E n \in 1..MaxChunk, newchain \in BOOLEAN :
          /\ hist.client_rx + n <= MaxClientBytes
          /\ Becomes([S EXCEPT
                 !.client_in = evbuffer_add(@, Bytes("client", hist.client_rx, n), newchain),
                 !.hist.client_rx = @ + n])
    /\ ev' = IF cbs = "ss" THEN "client_readcb" ELSE "idle"

RelayData ==
    /\ ev = "idle"
    /\ life = "relaying"
    /\ relay_rd
    /\ \E n \in {RelaySegment}, newchain \in BOOLEAN :
          /\ hist.relay_rx + n <= MaxRelayBytes
          /\ Becomes([S EXCEPT
                 !.relay_in = evbuffer_add(@, Bytes("relay", hist.relay_rx, n), newchain),
                 !.hist.relay_rx = @ + n])
    /\ ev' = "relay_readcb"

\* A socket becomes writable: libevent writes k bytes of the output evbuffer,
\* all of them or as many as the socket takes, and then calls the write
\* callback.
WriteSizes(len) == {k \in {WriteUnit, len} : 1 <= k /\ k <= len}

ClientWritable ==
    /\ ev = "idle"
    /\ life = "relaying"
    /\ EV_WRITE \notin client_evshut
    /\ \E k \in WriteSizes(Len(client_out)) :
          Becomes([S EXCEPT !.client_out = SubSeq(@, k + 1, Len(@)),
                            !.hist.client_sent = @ + k])
    /\ ev' = "client_writecb"

RelayWritable ==
    /\ ev = "idle"
    /\ life = "relaying"
    /\ EV_WRITE \notin relay_evshut
    /\ \E k \in WriteSizes(Len(relay_out)) :
          Becomes([S EXCEPT !.relay_out = SubSeq(@, k + 1, Len(@)),
                            !.hist.relay_sent = @ + k])
    /\ ev' = "relay_writecb"

\* The relay socket's connect attempt ends.  While connecting, the relay
\* stream's write callback is ss_relay_connected; libevent may write k bytes
\* of a queued handshake to the connected socket before it calls it.
RelayConnected ==
    /\ ev = "idle"
    /\ life = "connecting"
    /\ \E ok \in BOOLEAN, start_ok \in BOOLEAN, io \in IOs,
          k \in {0} \cup WriteSizes(Len(relay_out)) :
          /\ ~ok => k = 0
          /\ Becomes(ss_relay_connected(
                 [S EXCEPT !.relay_out = SubSeq(@, k + 1, Len(@)),
                           !.hist.relay_sent = @ + k],
                 ok, start_ok, io))
    /\ ev' = ev

ClientReadCb ==
    /\ ev = "client_readcb"
    /\ \E io \in IOs : Becomes(ss_client_readcb(S, io))
    /\ ev' = "idle"

ClientWriteCb ==
    /\ ev = "client_writecb"
    /\ \E io \in IOs : Becomes(ss_client_writecb(S, io))
    /\ ev' = "idle"

RelayReadCb ==
    /\ ev = "relay_readcb"
    /\ \E io \in IOs : Becomes(ss_relay_readcb(S, io))
    /\ ev' = "idle"

RelayWriteCb ==
    /\ ev = "relay_writecb"
    /\ \E io \in IOs : Becomes(ss_relay_writecb(S, io))
    /\ ev' = "idle"

\* End of stream on a readable socket.
ClientEOF ==
    /\ ev = "idle"
    /\ life \in {"connecting", "relaying"}
    /\ client_rd
    /\ Becomes(redsocks_event_eof(S, "client"))
    /\ ev' = ev

RelayEOF ==
    /\ ev = "idle"
    /\ life = "relaying"
    /\ relay_rd
    /\ Becomes(redsocks_event_eof(S, "relay"))
    /\ ev' = ev

\* Any other event on either stream (an I/O error, the connect timeout) goes
\* to redsocks_event_error, which drops the client.
EventError ==
    /\ ev = "idle"
    /\ life \in {"connecting", "relaying"}
    /\ Becomes(redsocks_drop_client(S))
    /\ ev' = ev

Next ==
    \/ ConnectRelay
    \/ ClientData
    \/ RelayData
    \/ ClientWritable
    \/ RelayWritable
    \/ RelayConnected
    \/ ClientReadCb
    \/ ClientWriteCb
    \/ RelayReadCb
    \/ RelayWriteCb
    \/ ClientEOF
    \/ RelayEOF
    \/ EventError

Spec == Init /\ [][Next]_vars

\* The event loop serves every stream that has bytes to write and runs every
\* callback it has picked.
\* Runs to one destination in which no reservation and no transform of the pump
\* fails: what the paused reads of backpressure wait for is the event loop alone.
FairInit == Init /\ destaddr.port = <<0, 80>>

NoFailure == hist'.failures = hist.failures

FairNext ==
    \/ ConnectRelay /\ NoFailure
    \/ ClientData /\ NoFailure
    \/ RelayData /\ NoFailure
    \/ ClientWritable /\ NoFailure
    \/ RelayWritable /\ NoFailure
    \/ RelayConnected /\ NoFailure
    \/ ClientReadCb /\ NoFailure
    \/ ClientWriteCb /\ NoFailure
    \/ RelayReadCb /\ NoFailure
    \/ RelayWriteCb /\ NoFailure
    \/ ClientEOF /\ NoFailure
    \/ RelayEOF /\ NoFailure
    \/ EventError /\ NoFailure

FairSpec ==
    /\ FairInit
    /\ [][FairNext]_vars
    /\ WF_vars(ClientWritable)
    /\ WF_vars(RelayWritable)
    /\ WF_vars(ClientReadCb)
    /\ WF_vars(ClientWriteCb)
    /\ WF_vars(RelayReadCb)
    /\ WF_vars(RelayWriteCb)

\* The same event loop on every run to one destination, reservations and
\* transforms that fail included.
FairAllSpec ==
    /\ FairInit
    /\ [][Next]_vars
    /\ WF_vars(ClientWritable)
    /\ WF_vars(RelayWritable)
    /\ WF_vars(ClientReadCb)
    /\ WF_vars(ClientWriteCb)
    /\ WF_vars(RelayReadCb)
    /\ WF_vars(RelayWriteCb)

\* The teardown hook called again on a connection that was torn down, as
\* overlapping error paths would.
FiniAgain ==
    /\ ev = "idle"
    /\ life = "dropped"
    /\ hist.fini_calls < MaxFiniCalls
    /\ Becomes(ss_client_fini(S))
    /\ ev' = ev

FiniNext ==
    \/ Next
    \/ FiniAgain

FiniSpec == Init /\ [][FiniNext]_vars

\* Subsystem start-up: the framework calls instance_init on the config it has
\* loaded, before any connection is accepted.
Pad(n) == Str([i \in 1..n |-> "x"])

CredStrings ==
    { NULL, Str(<<>>), Str(<<"r", "c", "4">>), Str(<<"t", "a", "b", "l", "e">>),
      Str(<<"b", "o", "g", "u", "s">>),
      Pad(MaxCredLen - 1), Pad(MaxCredLen), Pad(MaxCredLen + 1) }

CredInit ==
    /\ ev = "idle"
    /\ \E login \in CredStrings, password \in CredStrings :
          instance = NewInstance(login, password)
    /\ Is([Accepted(CHOOSE dest \in DestAddrs : TRUE) EXCEPT !.life = "startup"])

InstanceInit ==
    /\ life = "startup"
    /\ ~instance.called
    /\ instance' = ss_instance_init(instance)
    /\ UNCHANGED <<state, life, relay_connected, e_ctx_init, d_ctx_init, e_ctx,
                   d_ctx, client_in, client_out, relay_in, relay_out, client_rd,
                   relay_rd, client_evshut, relay_evshut, relay_timeout, cbs,
                   destaddr, hist, ev>>

CredSpec == CredInit /\ [][InstanceInit]_vars

\* The pump on its own: encrypt_buffer or decrypt_buffer called on a relaying
\* connection as it is, whatever its queues hold.
PumpCall ==
    /\ ev = "idle"
    /\ life = "relaying"
    /\ ev' \in {"encrypt_buffer", "decrypt_buffer"}
    /\ UNCHANGED <<state, life, relay_connected, e_ctx_init, d_ctx_init, e_ctx,
                   d_ctx, client_in, client_out, relay_in, relay_out, client_rd,
                   relay_rd, client_evshut, relay_evshut, relay_timeout, cbs,
                   destaddr, hist, instance>>

EncryptBuffer ==
    /\ ev = "encrypt_buffer"
    /\ \E io \in IOs : Becomes(encrypt_buffer(S, "client", "relay", io))
    /\ ev' = "idle"

DecryptBuffer ==
    /\ ev = "decrypt_buffer"
    /\ \E io \in IOs : Becomes(decrypt_buffer(S, "relay", "client", io))
    /\ ev' = "idle"

PumpNext ==
    \/ Next
    \/ PumpCall
    \/ EncryptBuffer
    \/ DecryptBuffer

PumpSpec == FairInit /\ [][PumpNext]_vars

\* A stray event: the event loop dispatches a steady-state callback on a
\* connection that is still in state NEW, waiting for the relay to connect.
StrayEvent ==
    /\ ev = "idle"
    /\ life = "connecting"
    /\ state = "ss_new"
    /\ ev' \in {"client_readcb", "client_writecb", "relay_readcb", "relay_writecb"}
    /\ UNCHANGED <<state, life, relay_connected, e_ctx_init, d_ctx_init, e_ctx,
                   d_ctx, client_in, client_out, relay_in, relay_out, client_rd,
                   relay_rd, client_evshut, relay_evshut, relay_timeout, cbs,
                   destaddr, hist, instance>>

StrayNext ==
    \/ Next
    \/ StrayEvent

StraySpec == Init /\ [][StrayNext]_vars

(***************************************************************************)
(* Properties.                                                             *)
(***************************************************************************)
Hwm == get_write_hwm

Alive == life \in {"connecting", "relaying"}

\* The bytes of q that are transformed payload, as the input bytes they came from.
RECURSIVE Payload(_)
Payload(q) ==
    IF q = <<>> THEN <<>>
    ELSE IF Head(q).c.o \in {"client", "relay"}
         THEN <<Head(q).c>> \o Payload(Tail(q))
         ELSE Payload(Tail(q))

IsSuffix(a, b) == \E k \in 0..Len(b) : a = SubSeq(b, k + 1, Len(b))

IsPrefix(a, b) == Len(a) <= Len(b) /\ a = SubSeq(b, 1, Len(a))

Increasing(q) == \A i \in 1..(Len(q) - 1) : q[i].v < q[i + 1].v

\* C1: a relay connect that fails in state NEW drops the client, leaves the
\* state NEW and no steady-state handler has run or will run a transform; a
\* connect that succeeds makes the state CONNECTED; the state changes only in
\* the connect event, never goes back to NEW, and a dropped connection does
\* nothing more.
C1_Inv ==
    /\ hist.connect = "failed" =>
           life = "dropped" /\ state = "ss_new" /\ ~hist.pumped
    /\ state = "ss_new" => ~hist.pumped /\ cbs # "ss"
    /\ state = "ss_connected" <=> hist.connect \in {"ok", "flushed"}

C1_Step ==
    /\ state = "ss_connected" => state' = "ss_connected"
    /\ state # state' => life = "connecting" /\ ev = "idle"
    /\ life = "dropped" => life' = "dropped" /\ state' = state /\ hist' = hist

C1_ConnectOnce == [](C1_Inv) /\ [][C1_Step]_vars

C1_Witness == hist.connect = "failed" /\ life = "dropped" /\ state = "ss_new"

\* A step of ss_relay_connected that succeeds with client input buffered.
FlushStep ==
    /\ state = "ss_new"
    /\ state' = "ss_connected"
    /\ life' = "relaying"
    /\ client_in # <<>>

C3_Step ==
    /\ (ev = "client_readcb" /\ state = "ss_connected" /\ Len(relay_out) >= Hwm) =>
           /\ ~client_rd'
           /\ relay_out' = relay_out
           /\ client_in' = client_in
           /\ e_ctx' = e_ctx /\ d_ctx' = d_ctx
    /\ (ev = "relay_readcb" /\ state = "ss_connected" /\ Len(client_out) >= Hwm) =>
           /\ ~relay_rd'
           /\ client_out' = client_out
           /\ relay_in' = relay_in
           /\ e_ctx' = e_ctx /\ d_ctx' = d_ctx

C3_Backpressure == [][C3_Step]_vars

\* Both directions paused: the read callbacks have just left the data where
\* it arrived.
C3_Witness ==
    /\ life = "relaying" /\ ev = "idle"
    /\ ~client_rd /\ EV_READ \notin client_evshut
    /\ Len(relay_out) >= Hwm /\ client_in # <<>>
    /\ ~relay_rd /\ EV_READ \notin relay_evshut
    /\ Len(client_out) >= Hwm /\ relay_in # <<>>

\* C4: a write callback that finds its stream's output queue below the
\* high-water mark enables reads on the source unless the source's read side
\* is shut down; one that finds it at or above the mark transforms nothing and
\* enables nothing; reads paused by backpressure are resumed in the end.
C4_Step ==
    /\ (ev = "relay_writecb" /\ Len(relay_out) < Hwm /\ EV_READ \notin client_evshut) =>
           client_rd'
    /\ (ev = "client_writecb" /\ Len(client_out) < Hwm /\ EV_READ \notin relay_evshut) =>
           relay_rd'
    /\ (ev = "relay_writecb" /\ Len(relay_out) >= Hwm) =>
           /\ client_rd' => client_rd
           /\ life' # "dropped" =>
                  relay_out' = relay_out /\ client_in' = client_in /\ e_ctx' = e_ctx
    /\ (ev = "client_writecb" /\ Len(client_out) >= Hwm) =>
           /\ relay_rd' => relay_rd
           /\ life' # "dropped" =>
                  client_out' = client_out /\ relay_in' = relay_in /\ d_ctx' = d_ctx

ClientPaused == life = "relaying" /\ ~client_rd /\ EV_READ \notin client_evshut

RelayPaused == life = "relaying" /\ ~relay_rd /\ EV_READ \notin relay_evshut

C4_Resume ==
    /\ [][C4_Step]_vars
    /\ ClientPaused ~> (client_rd \/ life = "dropped" \/ EV_READ \in client_evshut)
    /\ RelayPaused ~> (relay_rd \/ life = "dropped" \/ EV_READ \in relay_evshut)

\* The write callback is about to find the queue drained below the mark, with
\* the source still paused.
C4_Witness ==
    /\ ev = "relay_writecb"
    /\ ClientPaused
    /\ Len(relay_out) < Hwm
    /\ client_in # <<>>

C6_FailureDrops == hist.failed => life = "dropped"

\* C7: in each direction the bytes waiting in the source's input queue are the
\* last ones read, in the order read, and everything in the destination's
\* output queue was read before them and is in the order read: transformed
\* bytes are in the order of the cipher stream; and output is only ever added
\* at the tail of an output queue.
C7_Inv ==
    Alive =>
        /\ Flat(client_in) =
               [i \in 1..evbuffer_get_length(client_in) |->
                   [o |-> "client",
                    v |-> hist.client_rx - evbuffer_get_length(client_in) + i]]
        /\ Flat(relay_in) =
               [i \in 1..evbuffer_get_length(relay_in) |->
                   [o |-> "relay",
                    v |-> hist.relay_rx - evbuffer_get_length(relay_in) + i]]
        /\ Increasing(Payload(relay_out) \o Flat(client_in))
        /\ Increasing(Payload(client_out) \o Flat(relay_in))
        /\ \A i \in 1..(Len(relay_out) - 1) : relay_out[i].pos <= relay_out[i + 1].pos
        /\ \A i \in 1..(Len(client_out) - 1) : client_out[i].pos < client_out[i + 1].pos

C7_Step ==
    Alive' =>
        /\ \E k \in 0..Len(relay_out) :
               IsPrefix(SubSeq(relay_out, k + 1, Len(relay_out)), relay_out')
        /\ \E k \in 0..Len(client_out) :
               IsPrefix(SubSeq(client_out, k + 1, Len(client_out)), client_out')

C7_InOrder == [](C7_Inv) /\ [][C7_Step]_vars

C7_Witness ==
    /\ life = "relaying"
    /\ Len(Payload(relay_out)) >= 2
    /\ client_in # <<>>
    /\ Len(Payload(client_out)) >= 2
    /\ relay_in # <<>>

\* C8: however often the teardown hook is called, each context is freed at most
\* once, no context is freed that is not live, and once the hook has run both
\* flags are clear.
C8_TeardownIdempotent ==
    /\ e_ctx.frees <= e_ctx.inits /\ e_ctx.frees <= 1
    /\ d_ctx.frees <= d_ctx.inits /\ d_ctx.frees <= 1
    /\ ~e_ctx.misuse /\ ~d_ctx.misuse
    /\ hist.fini_calls >= 1 => e_ctx_init = 0 /\ d_ctx_init = 0

C8_Witness ==
    /\ hist.fini_calls = MaxFiniCalls
    /\ e_ctx.frees = 1
    /\ d_ctx.frees = 1

\* C9: a dropped connection holds no context: every context that was
\* initialized has been freed exactly once and neither flag is set.
C9_NoLeak ==
    life = "dropped" =>
        /\ e_ctx_init = 0 /\ d_ctx_init = 0
        /\ ~e_ctx.live /\ ~d_ctx.live
        /\ e_ctx.frees = e_ctx.inits /\ d_ctx.frees = d_ctx.inits
        /\ hist.fini_calls = 1

\* Dropped because the decrypt context could not be initialized.
C9_Witness ==
    /\ life = "dropped"
    /\ e_ctx.inits = 1 /\ e_ctx.frees = 1
    /\ d_ctx.inits = 0
    /\ hist.hdr_built = 0

\* The header as the wire format lays it out.
HeaderLayout(dest) ==
    [i \in 1..7 |-> IF i = 1 THEN ss_addrtype_ipv4
                    ELSE IF i \in 2..5 THEN dest.addr[i - 1]
                    ELSE dest.port[i - 5]]

\* C10: the header is built and encrypted at most once, and once on every
\* connection that gets to connect; on the relay stream (what was written to
\* the socket, then the output queue) the IV and the 7 bytes of the header,
\* encrypted first with the encrypt context, come first, and everything after
\* them is transformed client payload.
C10_HeaderFirst ==
    /\ hist.hdr_built <= 1
    /\ Alive =>
        /\ hist.hdr_built = 1
        /\ \A i \in 1..Len(relay_out) :
               LET p == hist.relay_sent + i - IvLen
                   b == relay_out[i]
               IN /\ b.ctx = "e"
                  /\ p <= 0 => b.c.o = "iv" /\ b.pos = 0
                  /\ p \in 1..7 =>
                         b.pos = p /\ b.c = [o |-> "hdr", v |-> HeaderLayout(destaddr)[p]]
                  /\ p > 7 => b.c.o = "client" /\ b.pos = p

C10_Witness ==
    /\ life = "relaying"
    /\ hist.relay_sent = 0
    /\ Len(relay_out) > IvLen + 7
    /\ hist.hdr_built = 1

\* C11 as stated: a steady-state callback invoked in a state other than
\* CONNECTED calls the drop path, and it neither transforms data nor shuts
\* down, enables or disables anything itself.
C11_StateFirst ==
    [][(ev # "idle" /\ state # "ss_connected") =>
          /\ life' = "dropped"
          /\ hist'.fini_calls = hist.fini_calls + 1
          /\ hist'.pumped = hist.pumped
          /\ client_evshut' = client_evshut
          /\ relay_evshut' = relay_evshut]_vars

Recognized(method) ==
    \E m \in 1..Len(supported_ciphers) : supported_ciphers[m] = method

WellFormed(login, password) ==
    /\ ~login.null /\ ~password.null
    /\ strlen(login) <= 255 /\ strlen(password) <= 255

\* C12 as stated: ss_is_valid_cred succeeds exactly for the pairs of non-null
\* strings of at most 255 bytes whose method is a recognized cipher method.
C12_ValidCred ==
    instance.called =>
        (instance.valid_cred = 1 <=>
            /\ WellFormed(instance.login, instance.password)
            /\ Recognized(instance.login))

\* C12 amended: ss_is_valid_cred succeeds exactly for the pairs of non-null
\* strings of at most 255 bytes each, whatever the method; ss_instance_init
\* hands the method to enc_init only when that check succeeds, and succeeds
\* exactly when the check succeeds and enc_init does not return -1.
C12_ValidCredLengths ==
    instance.called =>
        /\ instance.valid_cred = 1 <=> WellFormed(instance.login, instance.password)
        /\ instance.enc_called <=> instance.valid_cred = 1
        /\ instance.enc_called =>
               instance.method = enc_init(instance.password, instance.login)
        /\ instance.ret = 0 <=> (instance.valid_cred = 1 /\ instance.method # -1)
        /\ instance.ret \in {0, -1}

\* Credentials that pass the check with a method enc_init does not know.
C12_Witness ==
    /\ instance.called
    /\ instance.valid_cred = 1
    /\ instance.ret = -1
    /\ strlen(instance.password) = 255

\* C13: a timeout is armed on the relay stream exactly while the relay connect
\* is in flight, in state NEW; in state CONNECTED the relay stream has no
\* timeout, and no step arms one on a connection that is CONNECTED.
C13_TimeoutOnlyNew ==
    /\ [](state = "ss_connected" => ~relay_timeout)
    /\ [](relay_timeout <=> life = "connecting")
    /\ [](life = "connecting" => state = "ss_new")
    /\ [][state' = "ss_connected" => ~relay_timeout']_vars

\* The pump is running on a connection whose connect timeout was cleared.
C13_Witness ==
    /\ state = "ss_connected"
    /\ life = "relaying"
    /\ ~relay_timeout
    /\ hist.pumped
    /\ relay_in # <<>>

\* C14: when the connect helper has returned a stream, a reported sent length
\* that is neither zero nor the length of the encrypted header drops the
\* connection with -1, for good; a reported length of zero or of the whole
\* encrypted header leaves the connection alive in state NEW with 0 returned.
C14_Step ==
    (life = "accepted" /\ hist'.tfo_sz >= 0) =>
        /\ (hist'.tfo_sz # 0 /\ hist'.tfo_sz # HeaderCipherLen) =>
               life' = "dropped" /\ hist'.connect_ret = -1
        /\ (hist'.tfo_sz = 0 \/ hist'.tfo_sz = HeaderCipherLen) =>
               /\ life' = "connecting"
               /\ state' = "ss_new"
               /\ hist'.connect_ret = 0

C14_PiggybackLength ==
    /\ [][C14_Step]_vars
    /\ [][life = "dropped" => life' = "dropped"]_vars
    /\ [](hist.hdr_built <= 1)

\* Dropped because the helper reported part of the handshake as sent.
C14_Witness ==
    /\ life = "dropped"
    /\ hist.tfo_sz = 3
    /\ hist.connect_ret = -1
    /\ state = "ss_new"

\* A step in which a handler of the subsystem runs: one of the four
\* steady-state callbacks, or the relay-connected event.
HandlerStep == ev # "idle" \/ (state = "ss_new" /\ state' = "ss_connected")

\* The source queue after a handler: untouched, or without its first run.
OneRun(before, after) ==
    after = before \/ (before # <<>> /\ after = Tail(before))

\* The payload bytes a context has transformed grow by one run at most.
OneRunTransformed(ctx, after, before) ==
    \/ after.n = ctx.n
    \/ before # <<>> /\ after.n <= ctx.n + Len(Head(before))

\* C15: a handler invocation that leaves the connection alive pumps at most
\* once, in its own direction only: it takes at most the first contiguous run
\* off its source input queue and transforms at most that run; the runs behind
\* it stay in the source queue, in order, and the other direction's source
\* queue is not touched.
C15_Step ==
    (HandlerStep /\ life' # "dropped") =>
        /\ OneRun(client_in, client_in')
        /\ OneRun(relay_in, relay_in')
        /\ OneRunTransformed(e_ctx, e_ctx', client_in)
        /\ OneRunTransformed(d_ctx, d_ctx', relay_in)
        /\ ev \in {"idle", "client_readcb", "relay_writecb"} =>
               relay_in' = relay_in /\ d_ctx' = d_ctx
        /\ ev \in {"relay_readcb", "client_writecb"} =>
               client_in' = client_in /\ e_ctx' = e_ctx

C15_OneRunPerEvent == [][C15_Step]_vars

\* A read callback is about to pump a client input queue of several runs.
C15_Witness ==
    /\ ev = "client_readcb"
    /\ state = "ss_connected"
    /\ Len(client_in) >= 2
    /\ Len(relay_out) < Hwm

\* What one pump does to its source queue from_in and its destination queue
\* to_out, where produced is what the transform makes of the first run.
PumpEffect(from_in, from_after, to_out, to_after, produced) ==
    /\ from_after = Tail(from_in)
    /\ evbuffer_get_length(from_after) =
           evbuffer_get_length(from_in) - evbuffer_get_contiguous_space(from_in)
    /\ to_after = to_out \o (IF hist'.failures = hist.failures THEN produced ELSE <<>>)
    /\ hist'.failures # hist.failures => to_after = to_out

Encrypted == ss_encrypt(e_ctx, Head(client_in), TRUE).out

Decrypted == ss_decrypt(d_ctx, Head(relay_in), TRUE).out

\* C16: one pump on a non-empty source queue appends to the destination output
\* queue exactly what the transform produced from the first run, nothing when
\* the reservation or the transform fails, and takes exactly that run off the
\* source queue; on an empty source queue it changes nothing.  This holds of
\* the pump called on its own and of the pump inside each callback.
C16_Step ==
    /\ ev = "encrypt_buffer" =>
           IF client_in = <<>> THEN S' = S
           ELSE PumpEffect(client_in, client_in', relay_out, relay_out', Encrypted)
    /\ ev = "decrypt_buffer" =>
           IF relay_in = <<>> THEN S' = S
           ELSE PumpEffect(relay_in, relay_in', client_out, client_out', Decrypted)
    /\ (ev \in {"client_readcb", "relay_writecb"} /\ life' # "dropped") =>
           IF client_in' # client_in
           THEN PumpEffect(client_in, client_in', relay_out, relay_out', Encrypted)
           ELSE relay_out' = relay_out
    /\ (ev \in {"relay_readcb", "client_writecb"} /\ life' # "dropped") =>
           IF relay_in' # relay_in
           THEN PumpEffect(relay_in, relay_in', client_out, client_out', Decrypted)
           ELSE client_out' = client_out

C16_PumpFrame == [][C16_Step]_vars

\* The pump has been called on an empty source queue, and a transform has
\* failed with output already queued and source bytes still waiting.
C16_Witness ==
    /\ ev = "encrypt_buffer"
    /\ client_in = <<>>
    /\ hist.failed
    /\ client_out # <<>>
    /\ relay_in # <<>>

\* Byte k of a peer's stream is waiting in the source input queue q.
Waiting(q, k) == \E i \in 1..evbuffer_get_length(q) : Flat(q)[i].v = k

\* Byte k of a peer's stream is, transformed, in the destination output queue q.
Appended(q, k) == \E i \in 1..Len(q) : q[i].c.v = k /\ q[i].c.o \in {"client", "relay"}

HalfClosed == client_evshut # {} \/ relay_evshut # {}

\* C17 as stated: under a fair event loop every byte that waits in a source
\* input queue of a CONNECTED connection gets, transformed, into the
\* destination output queue, unless the connection is dropped or half-closed
\* first.
C17_EventuallyForwarded ==
    /\ \A k \in 1..MaxClientBytes :
           (state = "ss_connected" /\ life = "relaying" /\ Waiting(client_in, k))
               ~> (Appended(relay_out, k) \/ life = "dropped" \/ HalfClosed)
    /\ \A k \in 1..MaxRelayBytes :
           (state = "ss_connected" /\ life = "relaying" /\ Waiting(relay_in, k) /\ k > IvLen)
               ~> (Appended(client_out, k) \/ life = "dropped" \/ HalfClosed)

\* C18: on a connection that exists, state CONNECTED implies that both flags
\* are set, and a flag is set exactly while its context is initialized and not
\* freed; before ss_connect_relay neither context has been initialized; no
\* transform ever runs on a context that is not initialized or was freed; and
\* once the teardown hook has run neither context is used again.
C18_Inv ==
    /\ (state = "ss_connected" /\ Alive) => e_ctx_init = 1 /\ d_ctx_init = 1
    /\ e_ctx_init = 1 <=> e_ctx.live
    /\ d_ctx_init = 1 <=> d_ctx.live
    /\ life = "accepted" =>
           /\ e_ctx_init = 0 /\ d_ctx_init = 0
           /\ e_ctx.inits = 0 /\ d_ctx.inits = 0
    /\ ~e_ctx.misuse /\ ~d_ctx.misuse

C18_ContextsValid ==
    /\ [](C18_Inv)
    /\ [][hist.fini_calls >= 1 => e_ctx' = e_ctx /\ d_ctx' = d_ctx]_vars
    /\ [][(e_ctx'.n > e_ctx.n => e_ctx'.live /\ e_ctx_init' = 1)
           /\ (d_ctx'.n > d_ctx.n => d_ctx.live /\ d_ctx_init = 1)]_vars

\* Torn down after both contexts have transformed payload.
C18_Witness ==
    /\ life = "dropped"
    /\ state = "ss_connected"
    /\ hist.pumped
    /\ hist.connect = "flushed"
    /\ hist.fini_calls = 1
    /\ e_ctx.frees = 1 /\ d_ctx.frees = 1

\* An output queue grows only from below the high-water mark, and by no more
\* than the worst-case size of the transform of the first run of its source.
BoundedGrowth(out, after, ctx, source) ==
    Len(after) > Len(out) =>
        /\ Len(out) < Hwm
        /\ source # <<>>
        /\ Len(after) <= Len(out)
               + ss_calc_buffer_size(ctx, evbuffer_get_contiguous_space(source))

\* C19: the pump adds to an output queue only when the queue is below the
\* high-water mark and then at most the worst-case output of one pump, so no
\* output queue is ever longer than hwm - 1 plus that.  (Before the pump
\* starts, the relay output queue holds at most the encrypted handshake.)
C19_Step ==
    /\ life # "accepted" => BoundedGrowth(relay_out, relay_out', e_ctx, client_in)
    /\ life = "accepted" => Len(relay_out') <= HeaderCipherLen
    /\ BoundedGrowth(client_out, client_out', d_ctx, relay_in)

C19_Inv ==
    /\ Len(relay_out) <= Hwm - 1 + ss_calc_buffer_size(e_ctx, MaxClientBytes)
    /\ Len(client_out) <= Hwm - 1 + ss_calc_buffer_size(d_ctx, MaxRelayBytes)

C19_BoundedQueues == [][C19_Step]_vars /\ [](C19_Inv)

\* Both output queues are over the mark after a pump that started below it.
C19_Witness ==
    /\ life = "relaying"
    /\ Len(relay_out) > Hwm
    /\ Len(client_out) > Hwm

\* b is a byte of cipher output of context which, made from a byte of one of
\* the origins.
Transformed(b, which, origins) ==
    /\ DOMAIN b = {"ctx", "pos", "c"}
    /\ b.ctx = which
    /\ b.c.o \in origins

\* The bytes a callback has added at the tail of an output queue.
Added(out, after) == SubSeq(after, Len(out) + 1, Len(after))

\* C20: every byte in the relay output queue is output of the encrypt context,
\* and what the callbacks add to it is made from client input; every byte in
\* the client output queue is output of the decrypt context made from relay
\* input.  The encrypt context is advanced only by the callbacks that pump
\* client input and the decrypt context only by those that pump relay input.
C20_Inv ==
    /\ \A i \in 1..Len(relay_out) :
           Transformed(relay_out[i], "e", {"client", "hdr", "iv"})
    /\ \A i \in 1..Len(client_out) :
           Transformed(client_out[i], "d", {"relay"})

C20_Step ==
    (ev # "idle" /\ life' # "dropped") =>
        /\ IsPrefix(relay_out, relay_out')
        /\ IsPrefix(client_out, client_out')
        /\ \A i \in 1..Len(Added(relay_out, relay_out')) :
               /\ Transformed(Added(relay_out, relay_out')[i], "e", {"client"})
               /\ ev \in {"client_readcb", "relay_writecb"}
        /\ \A i \in 1..Len(Added(client_out, client_out')) :
               /\ Transformed(Added(client_out, client_out')[i], "d", {"relay"})
               /\ ev \in {"relay_readcb", "client_writecb"}
        /\ e_ctx' # e_ctx => ev \in {"client_readcb", "relay_writecb"}
        /\ d_ctx' # d_ctx => ev \in {"relay_readcb", "client_writecb"}

====
